---- MODULE Spec2Model ----
(***************************************************************************)
(* Model of the playback engine (AudioThread) and the transport controller *)
(* (AudioPlayerWindow) of src/music.py.                                    *)
(*                                                                         *)
(* Thread 0 is the control surface (the Qt main thread).  Threads          *)
(* 1..MaxSessions are AudioThread objects.  A streaming thread runs        *)
(* AudioThread.run and, from its finally block, the controller's           *)
(* playback_finished, so the controller procedures playCurrentTrack,       *)
(* stopPlayback and nextTrack are executed by both kinds of thread and are *)
(* written once, parameterised by the executing thread.  Every step is one *)
(* statement (or a run of statements that touch no shared state) of the    *)
(* source; attribute reads such as self.audio_thread are re-evaluated in   *)
(* every step in which the source re-evaluates them.  AudioThread objects   *)
(* whose thread has ended behave alike (join returns at once, start raises, *)
(* their flags are read by nobody), so a reference to one is the value      *)
(* DeadRef and the slot of the object is free for the next AudioThread.     *)
(***************************************************************************)
EXTENDS Integers, Sequences, FiniteSets, TLC

\* ---------------------------------------------------------------- bounds
MaxSessions == 3      \* AudioThread objects created in one run
MaxTracks == 2        \* longest playlist
MaxCmds == 2          \* user commands issued by the control surface
TrackFrames == 2000   \* frames decoded from every audio file

\* ------------------------------------------------------ program constants
chunk_size == 1024    \* frames per chunk
SeekDelta == 15000    \* milliseconds moved by rewind15 / forward15
SliderMax == 1000     \* range of the progress slider
SampleRate == 100     \* samplerate returned by sf.read for every file

Main == 0
None == 0
DeadRef == -1         \* any AudioThread object whose thread has ended
Sessions == 1..MaxSessions
Threads == 0..MaxSessions
TrackIds == 1..(MaxTracks + 1)
SliderValues == {0, 500, SliderMax}
InitialVolume == 80   \* self.volume_level after construction
HistoryMax == 100     \* maxlen of self.playback_history
VolumeValues == {0, 50, 100}   \* values of the volume slider (range 0..100)
MutedVolumes == {InitialVolume, 100}   \* positions of the slider in InitMuted
\* int16 samples found in the audio files
Samples == <<32767, -32768, -1, 12345>>

VARIABLES
    tracks,             \* self.tracks: sequence of AudioTrack objects
    currentTrackIndex,  \* self.currentTrackIndex
    currentTrack,       \* self.currentTrack (None or a track)
    playback_position,  \* self.playback_position, milliseconds
    audio_thread,       \* self.audio_thread (None or a session)
    shuffle,            \* self.shuffle
    repeat,             \* self.repeat
    pc,                 \* position of every thread in its code
    ret,                \* where stopPlayback returns to: "pct" or "done"
    joinTarget,         \* the thread object a thread is blocked joining
    flagged,            \* the thread object whose stop_flag stopPlayback set
    tppIsSet,           \* value of pause_event.is_set() read at line 557
    stop_flag,          \* AudioThread.stop_flag
    paused,             \* AudioThread.pause_event is cleared (also of DeadRef)
    dev,                \* output device of a session: none, open, released
    current_frame,      \* run's current_frame
    offset,             \* run's loop variable i
    exit,               \* how a session left its streaming loop
    finished,           \* calls of playback_finished made by a session
    sessTrack,          \* the track whose file a session opened
    origin,             \* who started a session, and on which path
    advIdx,             \* index written by a completion's nextTrack
    pctIdx,             \* index for which a completion started a session
    nsessions,          \* AudioThread objects created so far
    cmd,                \* the user command the control surface is inside
    cmds,               \* user commands issued so far
    volume_level,       \* self.volume_level, percent
    volume,             \* AudioThread.volume, in hundredths
    muted,              \* AudioThread.muted
    chunk,              \* the chunk a session has prepared for stream.write
    playback_history,   \* self.playback_history, newest first
    htrack,             \* addToHistory's track, once found not in the history
    path,               \* AudioTrack.path of every AudioTrack object
    files,              \* the paths os.path.isfile is true of
    playlist_file,      \* text of the playlist file, <<>> before a save
    saved               \* the paths of the tracks the last save wrote

diskVars == <<path, files, playlist_file, saved>>

vars == <<tracks, currentTrackIndex, currentTrack, playback_position,
          audio_thread, shuffle, diskVars,
                   volume_level, playback_history, repeat, pc,
          ret, joinTarget, flagged, tppIsSet, htrack, stop_flag, paused, dev,
          volume, muted, chunk, current_frame, offset, exit, finished,
          sessTrack, origin, advIdx, pctIdx, nsessions, cmd, cmds>>

ctlVars == <<tracks, currentTrackIndex, currentTrack, playback_position,
             audio_thread, shuffle, diskVars,
                   volume_level, playback_history, repeat>>
sessVars == <<stop_flag, paused, dev, volume, muted, chunk, current_frame,
              offset, exit, finished, sessTrack, origin, advIdx, pctIdx>>

\* ---------------------------------------------------------------- helpers
Min(a, b) == IF a < b THEN a ELSE b
Max(a, b) == IF a > b THEN a ELSE b

\* AudioTrack.get_duration, in milliseconds: len(f) / f.samplerate * 1000
DurationMs(trk) == (TrackFrames * 1000) \div SampleRate

\* int((self.player.playback_position / 1000.0) * samplerate)
StartFrame(pos) == (pos * SampleRate) \div 1000

\* (current_frame + i + len(chunk)) / samplerate * 1000.0
PositionMs(frames) == (frames * 1000) \div SampleRate

\* len(data) after data = data[current_frame:]
DataLen(cf) == Max(0, TrackFrames - cf)

\* len(data[i:i + chunk_size])
ChunkLen(cf, i) == Min(chunk_size, DataLen(cf) - i)

\* int((slider_val / 1000.0) * self.currentTrack.duration * 1000)
SeekPos(v, trk) == (v * DurationMs(trk)) \div SliderMax

Running(s) == dev[s] = "open"
InCallback(s) == pc[s] \in {"nt", "sp_check", "sp_flag", "sp_set", "sp_join",
                            "sp_wait", "pct_check", "pct_new", "pct_start",
                            "pct_add"}
Streaming(s) == pc[s] \in {"loop", "wait", "write", "pos", "finally", "cb"}
                \/ InCallback(s)

\* the next AudioThread object
NewSession == nsessions + 1

\* the quotient a \div b rounded toward zero, as a float is converted to int
TruncDiv(a, b) == IF a >= 0 THEN a \div b ELSE 0 - ((0 - a) \div b)

\* astype(np.int16) of an integral value: the low 16 bits, signed
ToInt16(n) == ((n + 32768) % 65536) - 32768

\* Scaled with the slider value used as the gain
Scaled_percent(x, v) == ToInt16(x * v)

\* (chunk * current_volume).astype(np.int16) for one sample x and the gain
\* v / 100.0; for the gains of the model the float product converts to the
\* exact quotient
Scaled(x, v) == ToInt16(TruncDiv(x * v, 100))

\* the sample at a frame of the file of a track (one sample stands for the
\* chunk that starts there)
SampleAt(trk, frame) == Samples[((trk + (frame \div 512)) % Len(Samples)) + 1]

\* no chunk in preparation.  Of a chunk: x the sample read from the file,
\* m and v the values of self.muted and self.volume read for it, out the
\* sample handed to stream.write, n and len its length before and after
\* lines 100-104
NoChunk == [x |-> 0, m |-> FALSE, v |-> 0, out |-> 0, n |-> 0, len |-> 0]

NoCmd == [name |-> "none", idx0 |-> 0, n0 |-> 0, p |-> 0, sess0 |-> 0,
          paused0 |-> FALSE, joined |-> FALSE]

\* AudioTrack objects something still refers to
UsedTracks == {None, currentTrack} \cup {tracks[k] : k \in 1..Len(tracks)}
              \cup {sessTrack[s] : s \in Sessions}
              \cup {playback_history[k] : k \in 1..Len(playback_history)}
              \cup {htrack[t] : t \in Threads}
FreshTrack(used) == CHOOSE x \in TrackIds \ used :
                        \A y \in TrackIds \ used : x <= y

RECURSIVE FreshTracks(_, _)
\* k new AudioTrack objects, none of them in used
FreshTracks(k, used) ==
    IF k = 0 THEN <<>>
    ELSE <<FreshTrack(used)>> \o FreshTracks(k - 1, used \cup {FreshTrack(used)})

RemoveAt(seq, k) == SubSeq(seq, 1, k - 1) \o SubSeq(seq, k + 1, Len(seq))

\* ------------------------------------------------- paths and playlist files
\* Text is a sequence of characters; these are the characters of the model.
Newline == "\n"
Whitespace == {" ", Newline}     \* what str.strip() removes

\* paths of audio files a user can have added: plain names, and names that
\* end or begin with a blank
PathSet == {<<"a">>, <<"b">>, <<"a", " ">>, <<" ", "b">>}

\* the path of the file AudioTrack object k was made from, for the plain
\* files of the music folder
DefaultPaths == << <<"a">>, <<"b">>, <<"a", "b">> >>
DefaultPath(k) == DefaultPaths[((k - 1) % Len(DefaultPaths)) + 1]
NoText == <<>>

RECURSIVE WriteLines(_)
\* lines 715-716: for track in self.tracks: f.write(f"{track.path}\n")
WriteLines(ps) ==
    IF ps = <<>> THEN NoText
    ELSE Head(ps) \o <<Newline>> \o WriteLines(Tail(ps))

\* the position of the first Newline of text, 0 when there is none
FirstNewline(text) ==
    IF \E i \in 1..Len(text) : text[i] = Newline
    THEN CHOOSE i \in 1..Len(text) :
             /\ text[i] = Newline
             /\ \A j \in 1..(i - 1) : text[j] # Newline
    ELSE 0

RECURSIVE ReadLines(_)
\* line 727: f.readlines(): the lines, each with its terminator, and the
\* unterminated rest if there is one
ReadLines(text) ==
    IF text = NoText THEN <<>>
    ELSE IF FirstNewline(text) = 0 THEN <<text>>
    ELSE <<SubSeq(text, 1, FirstNewline(text))>>
            \o ReadLines(SubSeq(text, FirstNewline(text) + 1, Len(text)))

RECURSIVE Strip(_)
\* line 731: line.strip(): leading and trailing whitespace removed
Strip(line) ==
    IF line = <<>> THEN <<>>
    ELSE IF Head(line) \in Whitespace THEN Strip(Tail(line))
    ELSE IF line[Len(line)] \in Whitespace
         THEN Strip(SubSeq(line, 1, Len(line) - 1))
         ELSE line

\* line 732: os.path.isfile(path)
isfile(p) == p \in files

RECURSIVE LoadedPaths(_)
\* lines 730-734: the stripped lines that name a file, in the order of the
\* lines
LoadedPaths(lines) ==
    IF lines = <<>> THEN <<>>
    ELSE (IF isfile(Strip(Head(lines))) THEN <<Strip(Head(lines))>> ELSE <<>>)
            \o LoadedPaths(Tail(lines))

\* the path attributes of a sequence of AudioTrack objects
PathsOf(trks) == [i \in 1..Len(trks) |-> path[trks[i]]]

\* the tracks have the plain paths of the music folder, the files exist,
\* and no playlist has been saved
DiskInit ==
    /\ path = [id \in TrackIds |-> DefaultPath(id)]
    /\ files = {DefaultPath(id) : id \in TrackIds}
    /\ playlist_file = NoText
    /\ saved = <<>>

\* ------------------------------------------------------------------ Init
\* The window after construction (lines 308-324) and after the user has
\* added up to MaxTracks files to the playlist.
Init ==
    /\ tracks \in {FreshTracks(k, {None}) : k \in 0..MaxTracks}
    /\ currentTrackIndex = -1
    /\ currentTrack = None
    /\ playback_position = 0
    /\ audio_thread = None
    /\ shuffle = FALSE
    /\ DiskInit
    /\ repeat = FALSE
    /\ volume_level = InitialVolume
    /\ pc = [t \in Threads |-> IF t = Main THEN "idle" ELSE "unused"]
    /\ ret = [t \in Threads |-> "done"]
    /\ joinTarget = [t \in Threads |-> None]
    /\ flagged = [t \in Threads |-> None]
    /\ tppIsSet = FALSE
    /\ htrack = [t \in Threads |-> None]
    /\ playback_history = <<>>
    /\ stop_flag = [s \in Sessions |-> FALSE]
    /\ paused = [s \in Sessions \cup {DeadRef} |-> FALSE]
    /\ dev = [s \in Sessions |-> "none"]
    /\ volume = [s \in Sessions |-> 0]
    /\ muted = [s \in Sessions |-> FALSE]
    /\ chunk = [s \in Sessions |-> NoChunk]
    /\ current_frame = [s \in Sessions |-> 0]
    /\ offset = [s \in Sessions |-> 0]
    /\ exit = [s \in Sessions |-> "none"]
    /\ finished = [s \in Sessions |-> 0]
    /\ sessTrack = [s \in Sessions |-> None]
    /\ origin = [s \in Sessions |-> "none"]
    /\ advIdx = [s \in Sessions |-> -1]
    /\ pctIdx = [s \in Sessions |-> -1]
    /\ nsessions = 0
    /\ cmd = NoCmd
    /\ cmds = 0

\* ------------------------------------------- control flow of one thread
\* where a thread goes when the handler it runs returns: the control
\* surface to its event loop, a streaming thread to its end
RetPc(t) == IF t # Main THEN "unused"
            ELSE IF cmd.name = "close" THEN "closed" ELSE "idle"

\* where a thread goes on an uncaught exception
RaisePc(t) == IF t # Main THEN "unused" ELSE "raised"

\* self.audio_thread is overwritten: an AudioThread object that was never
\* started is dropped with the reference
PcDrop == IF audio_thread \in Sessions /\ pc[audio_thread] = "created"
          THEN [pc EXCEPT ![audio_thread] = "unused"] ELSE pc
PausedDrop == [paused EXCEPT ![DeadRef] = FALSE]
\* field f of the sessions once the AudioThread that was created but never
\* started is no longer referenced
Dropped(f, d) == IF audio_thread \in Sessions /\ pc[audio_thread] = "created"
                 THEN [f EXCEPT ![audio_thread] = d] ELSE f

\* the thread of session s ends: references to it become DeadRef
RefAfter(s, r) == IF r = s /\ s # Main THEN DeadRef ELSE r
JoinAfter(s) == [t \in Threads |->
                   IF t = s THEN None ELSE RefAfter(s, joinTarget[t])]
FlaggedAfter(s) == [t \in Threads |->
                      IF t = s THEN None ELSE RefAfter(s, flagged[t])]

\* the fields of an ended session go back to their defaults
Ended(s, f, d) == IF s = Main THEN f ELSE [f EXCEPT ![s] = d]
PausedEnded(s) ==
    IF s = Main THEN paused
    ELSE [paused EXCEPT ![s] = FALSE,
                        ![DeadRef] = IF audio_thread = s THEN paused[s]
                                     ELSE paused[DeadRef]]

\* thread t leaves its handler (by return or by exception); for a streaming
\* thread this is the end of the thread
Leave(t) ==
    /\ audio_thread' = RefAfter(t, audio_thread)
    /\ joinTarget' = JoinAfter(t)
    /\ flagged' = FlaggedAfter(t)
    /\ ret' = [ret EXCEPT ![t] = "done"]
    /\ stop_flag' = Ended(t, stop_flag, FALSE)
    /\ paused' = PausedEnded(t)
    /\ dev' = Ended(t, dev, "none")
    /\ volume' = Ended(t, volume, 0)
    /\ muted' = Ended(t, muted, FALSE)
    /\ chunk' = Ended(t, chunk, NoChunk)
    /\ current_frame' = Ended(t, current_frame, 0)
    /\ offset' = Ended(t, offset, 0)
    /\ exit' = Ended(t, exit, "none")
    /\ finished' = Ended(t, finished, 0)
    /\ sessTrack' = Ended(t, sessTrack, None)
    /\ advIdx' = Ended(t, advIdx, -1)
    /\ pctIdx' = Ended(t, pctIdx, -1)

Return(t) ==
    /\ pc' = [pc EXCEPT ![t] = RetPc(t)]
    /\ cmd' = IF t = Main THEN NoCmd ELSE cmd
    /\ origin' = Ended(t, origin, "none")
    /\ Leave(t)

Raise(t) ==
    /\ pc' = [pc EXCEPT ![t] = RaisePc(t)]
    /\ UNCHANGED cmd
    /\ origin' = Ended(t, origin, "none")
    /\ Leave(t)

\* thread t goes on to label l of its handler
Goto(t, l) ==
    /\ pc' = [pc EXCEPT ![t] = l]
    /\ UNCHANGED cmd

\* the variables Leave writes, for the steps that do not leave
leaveVars == <<audio_thread, joinTarget, flagged, ret, stop_flag, paused, dev,
               volume, muted, chunk, current_frame, offset, exit, finished,
               sessTrack, advIdx, pctIdx, origin>>

\* ------------------------------------------------------------ stopPlayback
\* line 581: if self.audio_thread:
SpCheck(t) ==
    /\ pc[t] = "sp_check"
    /\ IF audio_thread # None
       THEN Goto(t, "sp_flag") /\ UNCHANGED leaveVars
       ELSE IF ret[t] = "pct"
            THEN Goto(t, "pct_check") /\ UNCHANGED leaveVars
            ELSE Return(t)
    /\ UNCHANGED <<tracks, currentTrackIndex, currentTrack, playback_position,
                   shuffle, diskVars,
                   volume_level, playback_history, repeat, tppIsSet,
                   htrack, cmds, nsessions>>

\* line 582: self.audio_thread.stop_flag = True
SpFlag(t) ==
    /\ pc[t] = "sp_flag"
    /\ IF audio_thread = None
       THEN Raise(t)
       ELSE /\ stop_flag' = IF audio_thread = DeadRef THEN stop_flag
                            ELSE [stop_flag EXCEPT ![audio_thread] = TRUE]
            /\ flagged' = [flagged EXCEPT ![t] = audio_thread]
            /\ Goto(t, "sp_set")
            /\ UNCHANGED <<audio_thread, joinTarget, ret, paused, dev, volume,
                           muted, chunk, current_frame, offset, exit,
                           finished, sessTrack, advIdx, pctIdx, origin>>
    /\ UNCHANGED <<tracks, currentTrackIndex, currentTrack, playback_position,
                   shuffle, diskVars,
                   volume_level, playback_history, repeat, tppIsSet,
                   htrack, cmds, nsessions>>

\* line 583: self.audio_thread.pause_event.set()
SpSet(t) ==
    /\ pc[t] = "sp_set"
    /\ IF audio_thread = None
       THEN Raise(t)
       ELSE /\ paused' = [paused EXCEPT ![audio_thread] = FALSE]
            /\ Goto(t, "sp_join")
            /\ UNCHANGED <<audio_thread, joinTarget, flagged, ret, stop_flag,
                           dev, volume, muted, chunk, current_frame, offset,
                           exit, finished, sessTrack, advIdx, pctIdx, origin>>
    /\ UNCHANGED <<tracks, currentTrackIndex, currentTrack, playback_position,
                   shuffle, diskVars,
                   volume_level, playback_history, repeat, tppIsSet,
                   htrack, cmds, nsessions>>

\* line 584, the call: self.audio_thread.join() raises on None, on a thread
\* that was never started and on the calling thread itself
SpJoin(t) ==
    /\ pc[t] = "sp_join"
    /\ IF \/ audio_thread = None
          \/ audio_thread = t /\ t # Main
          \/ audio_thread \in Sessions /\ pc[audio_thread] = "created"
       THEN Raise(t)
       ELSE /\ joinTarget' = [joinTarget EXCEPT ![t] = audio_thread]
            /\ pc' = [pc EXCEPT ![t] = "sp_wait"]
            /\ cmd' = IF t = Main THEN [cmd EXCEPT !.joined = TRUE] ELSE cmd
            /\ UNCHANGED <<audio_thread, flagged, ret, stop_flag, paused, dev,
                           volume, muted, chunk, current_frame, offset, exit,
                           finished, sessTrack, advIdx, pctIdx, origin>>
    /\ UNCHANGED <<tracks, currentTrackIndex, currentTrack, playback_position,
                   shuffle, diskVars,
                   volume_level, playback_history, repeat, tppIsSet,
                   htrack, cmds, nsessions>>

\* line 584, the return of join, and lines 585-587: self.audio_thread = None
SpWait(t) ==
    /\ pc[t] = "sp_wait"
    /\ joinTarget[t] = DeadRef
    /\ IF ret[t] = "pct"
       THEN /\ pc' = [PcDrop EXCEPT ![t] = "pct_check"]
            /\ audio_thread' = None
            /\ joinTarget' = [joinTarget EXCEPT ![t] = None]
            /\ flagged' = [flagged EXCEPT ![t] = None]
            /\ paused' = PausedDrop
            /\ volume' = Dropped(volume, 0)
            /\ muted' = Dropped(muted, FALSE)
            /\ UNCHANGED <<cmd, ret, stop_flag, dev, chunk, current_frame,
                           offset, exit, finished, sessTrack, advIdx, pctIdx,
                           origin>>
       ELSE /\ pc' = [PcDrop EXCEPT ![t] = RetPc(t)]
            /\ cmd' = IF t = Main THEN NoCmd ELSE cmd
            /\ audio_thread' = None
            /\ joinTarget' = [JoinAfter(t) EXCEPT ![t] = None]
            /\ flagged' = FlaggedAfter(t)
            /\ ret' = [ret EXCEPT ![t] = "done"]
            /\ stop_flag' = Ended(t, stop_flag, FALSE)
            /\ paused' = [PausedEnded(t) EXCEPT ![DeadRef] = FALSE]
            /\ dev' = Ended(t, dev, "none")
            /\ volume' = Ended(t, Dropped(volume, 0), 0)
            /\ muted' = Ended(t, Dropped(muted, FALSE), FALSE)
            /\ chunk' = Ended(t, chunk, NoChunk)
            /\ current_frame' = Ended(t, current_frame, 0)
            /\ offset' = Ended(t, offset, 0)
            /\ exit' = Ended(t, exit, "none")
            /\ finished' = Ended(t, finished, 0)
            /\ sessTrack' = Ended(t, sessTrack, None)
            /\ advIdx' = Ended(t, advIdx, -1)
            /\ pctIdx' = Ended(t, pctIdx, -1)
            /\ origin' = Ended(t, origin, "none")
    /\ UNCHANGED <<tracks, currentTrackIndex, currentTrack, playback_position,
                   shuffle, diskVars,
                   volume_level, playback_history, repeat, tppIsSet,
                   htrack, cmds, nsessions>>

\* -------------------------------------------------------- playCurrentTrack
\* self.playCurrentTrack(): its first statement is self.stopPlayback()
CallPlayCurrentTrack(t) ==
    /\ pc' = [pc EXCEPT ![t] = "sp_check"]
    /\ ret' = [ret EXCEPT ![t] = "pct"]

\* self.stopPlayback() called from removeTrackAt or closeEvent
CallStopPlayback(t) ==
    /\ pc' = [pc EXCEPT ![t] = "sp_check"]
    /\ ret' = [ret EXCEPT ![t] = "done"]

\* lines 568-573: the index check and self.currentTrack = self.tracks[...]
PctCheck(t) ==
    /\ pc[t] = "pct_check"
    /\ IF 0 <= currentTrackIndex /\ currentTrackIndex < Len(tracks)
       THEN /\ currentTrack' = tracks[currentTrackIndex + 1]
            /\ pctIdx' = IF t = Main THEN pctIdx
                         ELSE [pctIdx EXCEPT ![t] = currentTrackIndex]
            /\ Goto(t, "pct_new")
            /\ UNCHANGED <<audio_thread, joinTarget, flagged, ret, stop_flag,
                           paused, dev, volume, muted, chunk, current_frame,
                           offset, exit, finished, sessTrack, advIdx, origin>>
       ELSE /\ UNCHANGED currentTrack
            /\ Return(t)
    /\ UNCHANGED <<tracks, currentTrackIndex, playback_position, shuffle, diskVars,
                   volume_level, playback_history, repeat, tppIsSet, htrack,
                   cmds, nsessions>>

\* PctNew with the gain of the new session at the initial 80 percent
PctNew_defaultGain(t) ==
    /\ pc[t] = "pct_new"
    /\ nsessions < MaxSessions
    /\ LET n == NewSession IN
         /\ audio_thread' = n
         /\ nsessions' = n
         /\ pc' = [PcDrop EXCEPT ![t] = "pct_start", ![n] = "created"]
         /\ stop_flag' = [stop_flag EXCEPT ![n] = FALSE]
         /\ paused' = [PausedDrop EXCEPT ![n] = FALSE]
         /\ muted' = [Dropped(muted, FALSE) EXCEPT ![n] = FALSE]
         /\ volume' = [Dropped(volume, 0) EXCEPT ![n] = InitialVolume]
    /\ UNCHANGED <<tracks, currentTrackIndex, currentTrack, playback_position,
                   shuffle, diskVars,
                   volume_level, playback_history, repeat, ret,
                   joinTarget, flagged, tppIsSet, htrack, dev, chunk,
                   current_frame, offset, exit, finished, sessTrack, origin,
                   advIdx, pctIdx, cmd, cmds>>

\* line 574: self.audio_thread = AudioThread(self)   (AudioThread.__init__,
\* lines 54-62: stop_flag False, pause_event set)
PctNew(t) ==
    /\ pc[t] = "pct_new"
    /\ nsessions < MaxSessions
    /\ LET n == NewSession IN
         /\ audio_thread' = n
         /\ nsessions' = n
         /\ pc' = [PcDrop EXCEPT ![t] = "pct_start", ![n] = "created"]
         /\ stop_flag' = [stop_flag EXCEPT ![n] = FALSE]
         /\ paused' = [PausedDrop EXCEPT ![n] = FALSE]
         /\ muted' = [Dropped(muted, FALSE) EXCEPT ![n] = FALSE]
         /\ volume' = [Dropped(volume, 0) EXCEPT ![n] = volume_level]
    /\ UNCHANGED <<tracks, currentTrackIndex, currentTrack, playback_position,
                   shuffle, diskVars,
                   volume_level, playback_history, repeat, ret,
                   joinTarget, flagged, tppIsSet, htrack, dev, chunk,
                   current_frame, offset, exit, finished, sessTrack, origin,
                   advIdx, pctIdx, cmd, cmds>>

\* who runs playCurrentTrack: a user command, or the completion callback of
\* a session, on its repeat branch or after nextTrack
Origin(t) ==
    IF t = Main THEN "cmd"
    ELSE IF exit[t] = "eof"
         THEN (IF advIdx[t] = -1 THEN "repeat_eof"
               ELSE IF advIdx[t] = -2 THEN "shuffle_eof" ELSE "next_eof")
         ELSE IF exit[t] = "stop" THEN "stopped" ELSE "failed"

\* deque(maxlen=100).appendleft(track): the entry at the far end is dropped
\* when the deque is full
AppendLeft(h, track) == SubSeq(<<track>> \o h, 1, Min(Len(h) + 1, HistoryMax))

\* track in self.playback_history
InHistory(track) ==
    \E k \in 1..Len(playback_history) : playback_history[k] = track

\* lines 694-697: addToHistory(track) run without interruption
addToHistory(track) ==
    playback_history' = IF InHistory(track) THEN playback_history
                        ELSE AppendLeft(playback_history, track)

\* lines 575-578: self.audio_thread.start() raises on None and on a thread
\* that was started before; then the history is updated and the handler
\* returns.  Lines 577-578 touch nothing but the history, which nothing
\* else reads, so here they are taken in one step with the start;
\* PctHistory and PctAppend take the test and the append apart.
PctStart(t) ==
    /\ pc[t] = "pct_start"
    /\ IF audio_thread \in Sessions /\ pc[audio_thread] = "created"
       THEN /\ pc' = [pc EXCEPT ![t] = RetPc(t), ![audio_thread] = "run"]
            /\ cmd' = IF t = Main THEN NoCmd ELSE cmd
            /\ origin' = [Ended(t, origin, "none") EXCEPT
                             ![audio_thread] = Origin(t)]
            /\ addToHistory(currentTrack)
            /\ Leave(t)
       ELSE Raise(t) /\ UNCHANGED playback_history
    /\ UNCHANGED <<tracks, currentTrackIndex, currentTrack, playback_position,
                   shuffle, diskVars,
                   volume_level, repeat, tppIsSet, htrack, cmds,
                   nsessions>>

\* lines 575-577 and 694-695: self.audio_thread.start(), then
\* self.addToHistory(self.currentTrack) up to "if track not in
\* self.playback_history"; line 578 when the track is there
PctHistory(t) ==
    /\ pc[t] = "pct_start"
    /\ IF audio_thread \in Sessions /\ pc[audio_thread] = "created"
       THEN IF InHistory(currentTrack)
            THEN /\ pc' = [pc EXCEPT ![t] = RetPc(t), ![audio_thread] = "run"]
                 /\ cmd' = IF t = Main THEN NoCmd ELSE cmd
                 /\ origin' = [Ended(t, origin, "none") EXCEPT
                                  ![audio_thread] = Origin(t)]
                 /\ Leave(t)
                 /\ UNCHANGED htrack
            ELSE /\ pc' = [pc EXCEPT ![t] = "pct_add", ![audio_thread] = "run"]
                 /\ origin' = [origin EXCEPT ![audio_thread] = Origin(t)]
                 /\ htrack' = [htrack EXCEPT ![t] = currentTrack]
                 /\ UNCHANGED <<audio_thread, joinTarget, flagged, ret,
                                stop_flag, paused, dev, volume, muted, chunk,
                                current_frame, offset, exit, finished,
                                sessTrack, advIdx, pctIdx, cmd>>
       ELSE Raise(t) /\ UNCHANGED htrack
    /\ UNCHANGED <<tracks, currentTrackIndex, currentTrack, playback_position,
                   shuffle, diskVars,
                   volume_level, playback_history, repeat, tppIsSet,
                   cmds, nsessions>>

\* lines 696-697 and 578: self.playback_history.appendleft(track), then the
\* handler returns
PctAppend(t) ==
    /\ pc[t] = "pct_add"
    /\ playback_history' = AppendLeft(playback_history, htrack[t])
    /\ htrack' = [htrack EXCEPT ![t] = None]
    /\ Return(t)
    /\ UNCHANGED <<tracks, currentTrackIndex, currentTrack, playback_position,
                   shuffle, diskVars,
                   volume_level, repeat, tppIsSet, cmds, nsessions>>

\* --------------------------------------------------------------- nextTrack
\* lines 596-602, up to the call of playCurrentTrack
nextTrack(t) ==
    /\ Len(tracks) > 0
    /\ \E r \in 0..(Len(tracks) - 1) :
          /\ currentTrackIndex' =
                IF shuffle THEN r ELSE (currentTrackIndex + 1) % Len(tracks)
          /\ advIdx' = IF t = Main THEN advIdx
                       ELSE [advIdx EXCEPT ![t] =
                               IF shuffle THEN -2
                               ELSE (currentTrackIndex + 1) % Len(tracks)]
    /\ playback_position' = 0
    /\ CallPlayCurrentTrack(t)

\* lines 589-593, up to the call of playCurrentTrack
prevTrack(t) ==
    /\ Len(tracks) > 0
    /\ currentTrackIndex' = (currentTrackIndex - 1) % Len(tracks)
    /\ playback_position' = 0
    /\ CallPlayCurrentTrack(t)

\* ------------------------------------------------------------ AudioThread
\* ROpen with the failure path inside the try block whose finally clause
\* calls playback_finished
ROpen_failToFinally(s) ==
    /\ pc[s] = "run"
    /\ \/ /\ dev' = [dev EXCEPT ![s] = "open"]
          /\ sessTrack' = [sessTrack EXCEPT ![s] = currentTrack]
          /\ pc' = [pc EXCEPT ![s] = "frame"]
       \/ /\ pc' = [pc EXCEPT ![s] = "finally"]
          /\ UNCHANGED <<dev, sessTrack>>
    /\ UNCHANGED <<audio_thread, volume, muted, chunk, joinTarget, flagged,
                   ret, stop_flag, paused, current_frame, offset, exit,
                   finished, advIdx, pctIdx, origin, cmd>>
    /\ UNCHANGED <<tracks, currentTrackIndex, currentTrack, playback_position,
                   shuffle, diskVars,
                   volume_level, playback_history, repeat, tppIsSet,
                   htrack, cmds, nsessions>>

\* lines 65-85: the file check, sf.read and p.open; when one of them fails
\* run reports the error with show_error_message
ROpen(s) ==
    /\ pc[s] = "run"
    /\ \/ /\ dev' = [dev EXCEPT ![s] = "open"]
          /\ sessTrack' = [sessTrack EXCEPT ![s] = currentTrack]
          /\ pc' = [pc EXCEPT ![s] = "frame"]
       \/ /\ pc' = [pc EXCEPT ![s] = "open_err"]
          /\ UNCHANGED <<dev, sessTrack>>
    /\ UNCHANGED <<audio_thread, volume, muted, chunk, joinTarget, flagged,
                   ret, stop_flag, paused, current_frame, offset, exit,
                   finished, advIdx, pctIdx, origin, cmd>>
    /\ UNCHANGED <<tracks, currentTrackIndex, currentTrack, playback_position,
                   shuffle, diskVars,
                   volume_level, playback_history, repeat, tppIsSet,
                   htrack, cmds, nsessions>>

\* lines 69 and 85: the return that follows show_error_message
ROpenFailed(s) ==
    /\ pc[s] = "open_err"
    /\ Return(s)
    /\ UNCHANGED <<tracks, currentTrackIndex, currentTrack, playback_position,
                   shuffle, diskVars,
                   volume_level, playback_history, repeat, tppIsSet,
                   htrack, cmds, nsessions>>

\* lines 86-89: current_frame and data = data[current_frame:]
RFrame(s) ==
    /\ pc[s] = "frame"
    /\ current_frame' = [current_frame EXCEPT ![s] = StartFrame(playback_position)]
    /\ offset' = [offset EXCEPT ![s] = 0]
    /\ pc' = [pc EXCEPT ![s] = "loop"]
    /\ UNCHANGED <<ctlVars, stop_flag, paused, dev, volume, muted, chunk,
                   exit, finished, sessTrack, origin, advIdx, pctIdx, ret,
                   joinTarget, flagged, tppIsSet, htrack, cmd, cmds,
                   nsessions>>

\* RLoop without the test of the stop flag of lines 92-94
RLoop_ignoreStop(s) ==
    /\ pc[s] = "loop"
    /\ IF offset[s] >= DataLen(current_frame[s])
       THEN /\ exit' = [exit EXCEPT ![s] = "eof"]
            /\ pc' = [pc EXCEPT ![s] = "finally"]
       ELSE /\ pc' = [pc EXCEPT ![s] = "wait"]
            /\ UNCHANGED exit
    /\ UNCHANGED <<ctlVars, stop_flag, paused, dev, volume, muted, chunk,
                   current_frame, offset, finished, sessTrack, origin, advIdx,
                   pctIdx, ret, joinTarget, flagged, tppIsSet, htrack, cmd,
                   cmds, nsessions>>

\* RLoop with the loop entered once more when i = len(data)
RLoop_offByOne(s) ==
    /\ pc[s] = "loop"
    /\ IF offset[s] > DataLen(current_frame[s])
       THEN /\ exit' = [exit EXCEPT ![s] = "eof"]
            /\ pc' = [pc EXCEPT ![s] = "finally"]
       ELSE IF stop_flag[s]
            THEN /\ exit' = [exit EXCEPT ![s] = "stop"]
                 /\ pc' = [pc EXCEPT ![s] = "finally"]
            ELSE /\ pc' = [pc EXCEPT ![s] = "wait"]
                 /\ UNCHANGED exit
    /\ UNCHANGED <<ctlVars, stop_flag, paused, dev, volume, muted, chunk,
                   current_frame, offset, finished, sessTrack, origin, advIdx,
                   pctIdx, ret, joinTarget, flagged, tppIsSet, htrack, cmd,
                   cmds, nsessions>>

\* lines 91-94: the range test of the for loop and the stop flag
RLoop(s) ==
    /\ pc[s] = "loop"
    /\ IF offset[s] >= DataLen(current_frame[s])
       THEN /\ exit' = [exit EXCEPT ![s] = "eof"]
            /\ pc' = [pc EXCEPT ![s] = "finally"]
       ELSE IF stop_flag[s]
            THEN /\ exit' = [exit EXCEPT ![s] = "stop"]
                 /\ pc' = [pc EXCEPT ![s] = "finally"]
            ELSE /\ pc' = [pc EXCEPT ![s] = "wait"]
                 /\ UNCHANGED exit
    /\ UNCHANGED <<ctlVars, stop_flag, paused, dev, volume, muted, chunk,
                   current_frame, offset, finished, sessTrack, origin, advIdx,
                   pctIdx, ret, joinTarget, flagged, tppIsSet, htrack, cmd,
                   cmds, nsessions>>

\* Prepare with the test of self.muted left out
Prepare_ignoreMute(x, n, m, v) ==
    [x |-> x, m |-> m, v |-> v, out |-> Scaled(x, v), n |-> n, len |-> n]

\* lines 96-104 for a chunk of n frames with sample x, self.muted read as m
\* and self.volume as v: np.zeros_like keeps the shape, the product and
\* astype keep it too
Prepare(x, n, m, v) ==
    [x |-> x, m |-> m, v |-> v, out |-> Scaled(IF m THEN 0 ELSE x, v),
     n |-> n, len |-> n]

\* RWait without the pause_event.wait() of line 95
RWait_noPause(s) ==
    /\ pc[s] = "wait"
    /\ pc' = [pc EXCEPT ![s] = "write"]
    /\ chunk' = [chunk EXCEPT ![s] =
                    Prepare(SampleAt(sessTrack[s], current_frame[s] + offset[s]),
                            ChunkLen(current_frame[s], offset[s]),
                            muted[s], volume[s])]
    /\ UNCHANGED <<ctlVars, stop_flag, paused, dev, volume, muted,
                   current_frame, offset, exit, finished, sessTrack, origin,
                   advIdx, pctIdx, ret, joinTarget, flagged, tppIsSet, htrack,
                   cmd, cmds, nsessions>>

\* lines 95-104: self.pause_event.wait(), then the chunk is prepared
RWait(s) ==
    /\ pc[s] = "wait"
    /\ ~paused[s]
    /\ pc' = [pc EXCEPT ![s] = "write"]
    /\ chunk' = [chunk EXCEPT ![s] =
                    Prepare(SampleAt(sessTrack[s], current_frame[s] + offset[s]),
                            ChunkLen(current_frame[s], offset[s]),
                            muted[s], volume[s])]
    /\ UNCHANGED <<ctlVars, stop_flag, paused, dev, volume, muted,
                   current_frame, offset, exit, finished, sessTrack, origin,
                   advIdx, pctIdx, ret, joinTarget, flagged, tppIsSet, htrack,
                   cmd, cmds, nsessions>>

\* RWrite with the failing write leaving run without the finally block's
\* release of the device
RWrite_skipRelease(s) ==
    /\ pc[s] = "write"
    /\ \/ /\ pc' = [pc EXCEPT ![s] = "pos"]
          /\ UNCHANGED exit
       \/ /\ exit' = [exit EXCEPT ![s] = "werr"]
          /\ pc' = [pc EXCEPT ![s] = "cb"]
    /\ UNCHANGED <<ctlVars, stop_flag, paused, dev, volume, muted, chunk,
                   current_frame, offset, finished, sessTrack, origin, advIdx,
                   pctIdx, ret, joinTarget, flagged, tppIsSet, htrack, cmd,
                   cmds, nsessions>>

\* lines 105-111: stream.write, which can fail
RWrite(s) ==
    /\ pc[s] = "write"
    /\ \/ /\ pc' = [pc EXCEPT ![s] = "pos"]
          /\ UNCHANGED exit
       \/ /\ exit' = [exit EXCEPT ![s] = "werr"]
          /\ pc' = [pc EXCEPT ![s] = "finally"]
    /\ UNCHANGED <<ctlVars, stop_flag, paused, dev, volume, muted, chunk,
                   current_frame, offset, finished, sessTrack, origin, advIdx,
                   pctIdx, ret, joinTarget, flagged, tppIsSet, htrack, cmd,
                   cmds, nsessions>>

\* line 114: the first argument of update_visualization(chunk, len(chunk)):
\* the name chunk, which line 104 has rebound to the scaled samples
Visualized(c) == c.out

\* lines 112-117: the position update, then update_visualization, which
\* can raise into the handler of line 115
RPos(s) ==
    /\ pc[s] = "pos"
    /\ playback_position' =
          PositionMs(current_frame[s] + offset[s] + chunk[s].len)
    /\ chunk' = [chunk EXCEPT ![s] = NoChunk]
    /\ \/ /\ offset' = [offset EXCEPT ![s] = offset[s] + chunk_size]
          /\ pc' = [pc EXCEPT ![s] = "loop"]
          /\ UNCHANGED exit
       \/ /\ exit' = [exit EXCEPT ![s] = "exc"]
          /\ pc' = [pc EXCEPT ![s] = "finally"]
          /\ UNCHANGED offset
    /\ UNCHANGED <<tracks, currentTrackIndex, currentTrack, audio_thread,
                   shuffle, diskVars,
                   volume_level, playback_history, repeat, stop_flag,
                   paused, dev, volume, muted, current_frame, finished,
                   sessTrack, origin, advIdx, pctIdx, ret, joinTarget,
                   flagged, tppIsSet, htrack, cmd, cmds, nsessions>>

\* lines 118-122: stream.stop_stream(), stream.close(), p.terminate()
RFinally(s) ==
    /\ pc[s] = "finally"
    /\ dev' = [dev EXCEPT ![s] = "released"]
    /\ pc' = [pc EXCEPT ![s] = "cb"]
    /\ UNCHANGED <<ctlVars, stop_flag, paused, volume, muted, chunk,
                   current_frame, offset, exit, finished, sessTrack, origin,
                   advIdx, pctIdx, ret, joinTarget, flagged, tppIsSet, htrack,
                   cmd, cmds, nsessions>>

\* line 123 and lines 790-795: self.player.playback_finished() up to the
\* call it makes
playback_finished(s) ==
    /\ pc[s] = "cb"
    /\ finished' = [finished EXCEPT ![s] = finished[s] + 1]
    /\ audio_thread' = None
    /\ paused' = PausedDrop
    /\ IF repeat
       THEN /\ pc' = [PcDrop EXCEPT ![s] = "sp_check"]
            /\ ret' = [ret EXCEPT ![s] = "pct"]
       ELSE /\ pc' = [PcDrop EXCEPT ![s] = "nt"]
            /\ UNCHANGED ret
    /\ volume' = Dropped(volume, 0)
    /\ muted' = Dropped(muted, FALSE)
    /\ UNCHANGED <<tracks, currentTrackIndex, currentTrack, playback_position,
                   shuffle, diskVars,
                   volume_level, playback_history, repeat, stop_flag,
                   dev, chunk, current_frame, offset, exit, sessTrack, origin,
                   advIdx, pctIdx, joinTarget, flagged, tppIsSet, htrack, cmd,
                   cmds, nsessions>>

\* self.nextTrack() run by the completion callback (line 795)
FinishedNextTrack(s) ==
    /\ pc[s] = "nt"
    /\ IF Len(tracks) > 0
       THEN /\ nextTrack(s)
            /\ UNCHANGED <<audio_thread, joinTarget, flagged, stop_flag,
                           paused, dev, volume, muted, chunk, current_frame,
                           offset, exit, finished, sessTrack, pctIdx, origin,
                           cmd>>
       ELSE /\ Return(s)
            /\ UNCHANGED <<currentTrackIndex, playback_position>>
    /\ UNCHANGED <<tracks, currentTrack, shuffle, diskVars, volume_level,
                   playback_history, repeat, tppIsSet, htrack, cmds,
                   nsessions>>

\* ---------------------------------------------------------- user commands
\* The control surface dispatches one handler at a time.
Issue == /\ pc[Main] = "idle"
         /\ cmds < MaxCmds
         /\ cmds' = cmds + 1
         /\ UNCHANGED nsessions

\* what the control surface remembers of the command it is inside
Enter(name, p) ==
    cmd' = IF pc'[Main] = "idle" THEN NoCmd
           ELSE [name |-> name, idx0 |-> currentTrackIndex,
                 n0 |-> Len(tracks), p |-> p, sess0 |-> audio_thread,
                 paused0 |-> audio_thread # None /\ paused[audio_thread],
                 joined |-> FALSE]

\* lines 546-556: togglePlayPause up to its first use of the session
togglePlayPause ==
    /\ Issue
    /\ IF currentTrackIndex < 0
       THEN IF Len(tracks) > 0
            THEN /\ currentTrackIndex' = 0
                 /\ CallPlayCurrentTrack(Main)
            ELSE UNCHANGED <<currentTrackIndex, pc, ret>>
       ELSE /\ UNCHANGED currentTrackIndex
            /\ IF audio_thread = None
               THEN CallPlayCurrentTrack(Main)
               ELSE pc' = [pc EXCEPT ![Main] = "tpp_test"] /\ UNCHANGED ret
    /\ Enter("toggle", 0)
    /\ UNCHANGED <<tracks, currentTrack, playback_position, audio_thread,
                   shuffle, diskVars,
                   volume_level, playback_history, repeat, sessVars,
                   joinTarget, flagged, tppIsSet, htrack>>

\* line 557: if self.audio_thread.pause_event.is_set()
TppTest ==
    /\ pc[Main] = "tpp_test"
    /\ IF audio_thread = None
       THEN Raise(Main) /\ UNCHANGED tppIsSet
       ELSE /\ tppIsSet' = ~paused[audio_thread]
            /\ Goto(Main, "tpp_flip")
            /\ UNCHANGED leaveVars
    /\ UNCHANGED <<tracks, currentTrackIndex, currentTrack, playback_position,
                   shuffle, diskVars,
                   volume_level, playback_history, repeat, htrack,
                   cmds, nsessions>>

\* TppFlip with the playback position taken back to the start of the track
TppFlip_rewind ==
    /\ pc[Main] = "tpp_flip"
    /\ tppIsSet' = FALSE
    /\ playback_position' = 0
    /\ IF audio_thread = None
       THEN Raise(Main)
       ELSE /\ paused' = [paused EXCEPT ![audio_thread] = tppIsSet]
            /\ pc' = [pc EXCEPT ![Main] = "idle"]
            /\ cmd' = NoCmd
            /\ UNCHANGED <<audio_thread, joinTarget, flagged, ret, stop_flag,
                           dev, volume, muted, chunk, current_frame, offset,
                           exit, finished, sessTrack, advIdx, pctIdx, origin>>
    /\ UNCHANGED <<tracks, currentTrackIndex, currentTrack, shuffle, diskVars,
                   volume_level, playback_history, repeat, htrack, cmds,
                   nsessions>>

\* lines 558-564: pause_event.clear() or pause_event.set()
TppFlip ==
    /\ pc[Main] = "tpp_flip"
    /\ tppIsSet' = FALSE
    /\ IF audio_thread = None
       THEN Raise(Main)
       ELSE /\ paused' = [paused EXCEPT ![audio_thread] = tppIsSet]
            /\ pc' = [pc EXCEPT ![Main] = "idle"]
            /\ cmd' = NoCmd
            /\ UNCHANGED <<audio_thread, joinTarget, flagged, ret, stop_flag,
                           dev, volume, muted, chunk, current_frame, offset,
                           exit, finished, sessTrack, advIdx, pctIdx, origin>>
    /\ UNCHANGED <<tracks, currentTrackIndex, currentTrack, playback_position,
                   shuffle, diskVars,
                   volume_level, playback_history, repeat, htrack,
                   cmds, nsessions>>

\* lines 589-594, as the handler of the previous button
PrevTrack ==
    /\ Issue
    /\ IF Len(tracks) > 0
       THEN prevTrack(Main)
       ELSE UNCHANGED <<currentTrackIndex, playback_position, pc, ret>>
    /\ Enter("prev", 0)
    /\ UNCHANGED <<tracks, currentTrack, audio_thread, shuffle, diskVars,
                   volume_level,
                   playback_history, repeat, sessVars, joinTarget, flagged,
                   tppIsSet, htrack>>

\* lines 596-604, as the handler of the next button
NextTrack ==
    /\ Issue
    /\ IF Len(tracks) > 0
       THEN nextTrack(Main)
       ELSE UNCHANGED <<currentTrackIndex, playback_position, pc, ret,
                        advIdx>>
    /\ Enter(IF shuffle THEN "next_shuffle" ELSE "next", 0)
    /\ UNCHANGED <<tracks, currentTrack, audio_thread, shuffle, diskVars,
                   volume_level,
                   playback_history, repeat, stop_flag, paused, dev, volume,
                   muted, chunk, current_frame, offset, exit, finished,
                   sessTrack, origin, pctIdx, joinTarget, flagged, tppIsSet,
                   htrack>>

\* lines 816-823
jumpToTrackByNumber(track_number) ==
    /\ Issue
    /\ IF 1 <= track_number /\ track_number <= Len(tracks)
       THEN /\ currentTrackIndex' = track_number - 1
            /\ playback_position' = 0
            /\ CallPlayCurrentTrack(Main)
       ELSE UNCHANGED <<currentTrackIndex, playback_position, pc, ret>>
    /\ Enter("jump", 0)
    /\ UNCHANGED <<tracks, currentTrack, audio_thread, shuffle, diskVars,
                   volume_level,
                   playback_history, repeat, sessVars, joinTarget, flagged,
                   tppIsSet, htrack>>

\* lines 606-610
rewind15 ==
    /\ Issue
    /\ playback_position' = Max(0, playback_position - SeekDelta)
    /\ IF audio_thread # None
       THEN CallPlayCurrentTrack(Main)
       ELSE UNCHANGED <<pc, ret>>
    /\ Enter("seek", Max(0, playback_position - SeekDelta))
    /\ UNCHANGED <<tracks, currentTrackIndex, currentTrack, audio_thread,
                   shuffle, diskVars,
                   volume_level, playback_history, repeat, sessVars,
                   joinTarget, flagged, tppIsSet, htrack>>

\* lines 612-620
forward15 ==
    /\ Issue
    /\ IF currentTrack # None
          /\ playback_position + SeekDelta < DurationMs(currentTrack)
       THEN /\ playback_position' = playback_position + SeekDelta
            /\ IF audio_thread # None
               THEN CallPlayCurrentTrack(Main)
               ELSE UNCHANGED <<pc, ret>>
       ELSE UNCHANGED <<playback_position, pc, ret>>
    /\ Enter("seek", playback_position + SeekDelta)
    /\ UNCHANGED <<tracks, currentTrackIndex, currentTrack, audio_thread,
                   shuffle, diskVars,
                   volume_level, playback_history, repeat, sessVars,
                   joinTarget, flagged, tppIsSet, htrack>>

\* lines 659-668
onSeekEnd(slider_val) ==
    /\ Issue
    /\ IF currentTrack # None
       THEN /\ playback_position' = SeekPos(slider_val, currentTrack)
            /\ IF audio_thread # None
               THEN CallPlayCurrentTrack(Main)
               ELSE UNCHANGED <<pc, ret>>
       ELSE UNCHANGED <<playback_position, pc, ret>>
    /\ Enter("seek", SeekPos(slider_val, currentTrack))
    /\ UNCHANGED <<tracks, currentTrackIndex, currentTrack, audio_thread,
                   shuffle, diskVars,
                   volume_level, playback_history, repeat, sessVars,
                   joinTarget, flagged, tppIsSet, htrack>>

\* lines 648-650
toggleShuffle ==
    /\ Issue
    /\ shuffle' = ~shuffle
    /\ UNCHANGED <<tracks, currentTrackIndex, currentTrack, playback_position,
                   audio_thread, diskVars,
                   volume_level, playback_history, repeat,
                   sessVars, pc, ret, joinTarget, flagged, tppIsSet, htrack,
                   cmd>>

\* lines 652-654
toggleRepeat ==
    /\ Issue
    /\ repeat' = ~repeat
    /\ UNCHANGED <<tracks, currentTrackIndex, currentTrack, playback_position,
                   audio_thread, shuffle, diskVars,
                   volume_level, playback_history,
                   sessVars, pc, ret, joinTarget, flagged, tppIsSet, htrack,
                   cmd>>

\* lines 534-542, for one pending file
addSelectedFiles ==
    /\ Issue
    /\ Len(tracks) < MaxTracks
    /\ TrackIds \ UsedTracks # {}
    /\ tracks' = Append(tracks, FreshTrack(UsedTracks))
    /\ UNCHANGED <<currentTrackIndex, currentTrack, playback_position,
                   audio_thread, shuffle, diskVars,
                   volume_level, playback_history,
                   repeat, sessVars, pc, ret, joinTarget, flagged, tppIsSet,
                   htrack, cmd>>

\* the AudioTrack objects that outlive self.tracks.clear()
KeptTracks == {None, currentTrack} \cup {sessTrack[s] : s \in Sessions}
              \cup {playback_history[k] : k \in 1..Len(playback_history)}
              \cup {htrack[t] : t \in Threads}

\* lines 723-738, for a playlist file of which k lines name a file
loadPlaylist(k) ==
    /\ Issue
    /\ Cardinality(TrackIds \ KeptTracks) >= k
    /\ tracks' = FreshTracks(k, KeptTracks)
    /\ UNCHANGED <<currentTrackIndex, currentTrack, playback_position,
                   audio_thread, shuffle, diskVars,
                   volume_level, playback_history,
                   repeat, sessVars, pc, ret, joinTarget, flagged, tppIsSet,
                   htrack, cmd>>

\* lines 804-809: the row is popped and the "Removed" message box is shown
removeTrackAt(row) ==
    /\ Issue
    /\ IF row >= 0 /\ row < Len(tracks)
       THEN /\ tracks' = RemoveAt(tracks, row + 1)
            /\ pc' = [pc EXCEPT ![Main] = "rm_adjust"]
            /\ cmd' = [name |-> "remove", idx0 |-> currentTrackIndex,
                       n0 |-> Len(tracks), p |-> row, sess0 |-> audio_thread,
                       paused0 |-> audio_thread # None /\ paused[audio_thread],
                       joined |-> FALSE]
       ELSE UNCHANGED <<tracks, pc, cmd>>
    /\ UNCHANGED <<currentTrackIndex, currentTrack, playback_position,
                   audio_thread, shuffle, diskVars,
                   volume_level, playback_history,
                   repeat, sessVars, ret, joinTarget, flagged, tppIsSet,
                   htrack>>

\* lines 811-814, after the message box is closed; cmd.p is row
RemoveAdjust ==
    /\ pc[Main] = "rm_adjust"
    /\ IF cmd.p = currentTrackIndex
       THEN /\ CallStopPlayback(Main)
            /\ UNCHANGED <<currentTrackIndex, cmd>>
       ELSE /\ currentTrackIndex' =
                  IF cmd.p < currentTrackIndex
                  THEN currentTrackIndex - 1 ELSE currentTrackIndex
            /\ pc' = [pc EXCEPT ![Main] = "idle"]
            /\ cmd' = NoCmd
            /\ UNCHANGED ret
    /\ UNCHANGED <<tracks, currentTrack, playback_position, audio_thread,
                   shuffle, diskVars,
                   volume_level, playback_history, repeat, sessVars,
                   joinTarget, flagged, tppIsSet, htrack, cmds, nsessions>>

\* lines 622-624: self.volume_level = value, and the first test of line 624
changeVolume(value) ==
    /\ Issue
    /\ volume_level' = value
    /\ IF audio_thread # None
       THEN pc' = [pc EXCEPT ![Main] = "cv_muted"]
       ELSE UNCHANGED pc
    /\ Enter("volume", value)
    /\ UNCHANGED <<tracks, currentTrackIndex, currentTrack, playback_position,
                   audio_thread, shuffle, diskVars,
                   playback_history, repeat, sessVars,
                   ret, joinTarget, flagged, tppIsSet, htrack>>

\* line 624: ... and not self.audio_thread.muted; the gain of a dead
\* AudioThread object is read by nobody, so both outcomes of the test on it
\* lead to the same state
CvMuted ==
    /\ pc[Main] = "cv_muted"
    /\ IF audio_thread = None
       THEN Raise(Main)
       ELSE /\ IF audio_thread \in Sessions /\ muted[audio_thread]
               THEN pc' = [pc EXCEPT ![Main] = "idle"] /\ cmd' = NoCmd
               ELSE Goto(Main, "cv_set")
            /\ UNCHANGED leaveVars
    /\ UNCHANGED <<tracks, currentTrackIndex, currentTrack, playback_position,
                   shuffle, diskVars,
                   volume_level, playback_history, repeat, tppIsSet,
                   htrack, cmds, nsessions>>

\* lines 625-627: with self.audio_thread.lock: self.audio_thread.volume =
\* value / 100.0; cmd.p is value
CvSet ==
    /\ pc[Main] = "cv_set"
    /\ IF audio_thread = None
       THEN Raise(Main)
       ELSE /\ volume' = IF audio_thread = DeadRef THEN volume
                         ELSE [volume EXCEPT ![audio_thread] = cmd.p]
            /\ pc' = [pc EXCEPT ![Main] = "idle"]
            /\ cmd' = NoCmd
            /\ UNCHANGED <<audio_thread, joinTarget, flagged, ret, stop_flag,
                           paused, dev, muted, chunk, current_frame, offset,
                           exit, finished, sessTrack, advIdx, pctIdx, origin>>
    /\ UNCHANGED <<tracks, currentTrackIndex, currentTrack, playback_position,
                   shuffle, diskVars,
                   volume_level, playback_history, repeat, tppIsSet,
                   htrack, cmds, nsessions>>

\* lines 629-630: if self.audio_thread:
toggleMute ==
    /\ Issue
    /\ IF audio_thread # None
       THEN pc' = [pc EXCEPT ![Main] = "tm_flip"]
       ELSE UNCHANGED pc
    /\ Enter("mute", 0)
    /\ UNCHANGED <<ctlVars, sessVars, ret, joinTarget, flagged, tppIsSet,
                   htrack>>

\* line 631: self.audio_thread.muted = not self.audio_thread.muted
TmFlip ==
    /\ pc[Main] = "tm_flip"
    /\ IF audio_thread = None
       THEN Raise(Main)
       ELSE /\ muted' = IF audio_thread = DeadRef THEN muted
                        ELSE [muted EXCEPT ![audio_thread] = ~muted[audio_thread]]
            /\ Goto(Main, "tm_icon")
            /\ UNCHANGED <<audio_thread, joinTarget, flagged, ret, stop_flag,
                           paused, dev, volume, chunk, current_frame, offset,
                           exit, finished, sessTrack, advIdx, pctIdx, origin>>
    /\ UNCHANGED <<tracks, currentTrackIndex, currentTrack, playback_position,
                   shuffle, diskVars,
                   volume_level, playback_history, repeat, tppIsSet,
                   htrack, cmds, nsessions>>

\* lines 632-637: if self.audio_thread.muted: ... the icon is set
TmIcon ==
    /\ pc[Main] = "tm_icon"
    /\ IF audio_thread = None
       THEN Raise(Main)
       ELSE /\ pc' = [pc EXCEPT ![Main] = "idle"]
            /\ cmd' = NoCmd
            /\ UNCHANGED leaveVars
    /\ UNCHANGED <<tracks, currentTrackIndex, currentTrack, playback_position,
                   shuffle, diskVars,
                   volume_level, playback_history, repeat, tppIsSet,
                   htrack, cmds, nsessions>>

\* lines 828-830
closeEvent ==
    /\ Issue
    /\ CallStopPlayback(Main)
    /\ Enter("close", 0)
    /\ UNCHANGED <<ctlVars, sessVars, joinTarget, flagged, tppIsSet, htrack>>

\* ------------------------------------------------------------------- Next
Command ==
    \/ togglePlayPause
    \/ PrevTrack
    \/ NextTrack
    \/ \E n \in 1..(MaxTracks + 1) : jumpToTrackByNumber(n)
    \/ rewind15
    \/ forward15
    \/ \E v \in SliderValues : onSeekEnd(v)
    \/ toggleShuffle
    \/ toggleRepeat
    \/ addSelectedFiles
    \/ \E k \in 0..MaxTracks : loadPlaylist(k)
    \/ \E row \in -1..(MaxTracks - 1) : removeTrackAt(row)
    \/ \E value \in VolumeValues : changeVolume(value)
    \/ toggleMute
    \/ closeEvent

Controller(t) ==
    \/ SpCheck(t)
    \/ SpFlag(t)
    \/ SpSet(t)
    \/ SpJoin(t)
    \/ SpWait(t)
    \/ PctCheck(t)
    \/ PctNew(t)
    \/ PctStart(t)

Stream(s) ==
    \/ ROpen(s)
    \/ ROpenFailed(s)
    \/ RFrame(s)
    \/ RLoop(s)
    \/ RWait(s)
    \/ RWrite(s)
    \/ RPos(s)
    \/ RFinally(s)
    \/ playback_finished(s)
    \/ FinishedNextTrack(s)

Next ==
    \/ Command
    \/ TppTest
    \/ TppFlip
    \/ CvMuted
    \/ CvSet
    \/ TmFlip
    \/ TmIcon
    \/ RemoveAdjust
    \/ \E t \in Threads : Controller(t)
    \/ \E s \in Sessions : Stream(s)

Spec == Init /\ [][Next]_vars

\* ------------------------------------------------- pausing and stopping
\* The window after the user has played track 0 and paused it: the
\* streaming thread has opened the device and is blocked in
\* self.pause_event.wait() before its first chunk.  One user command follows.
InitPaused ==
    /\ tracks \in {FreshTracks(k, {None}) : k \in 1..MaxTracks}
    /\ currentTrackIndex = 0
    /\ currentTrack = tracks[1]
    /\ playback_position = 0
    /\ audio_thread = 1
    /\ shuffle = FALSE
    /\ DiskInit
    /\ repeat = FALSE
    /\ volume_level = InitialVolume
    /\ pc = [t \in Threads |-> IF t = Main THEN "idle"
                               ELSE IF t = 1 THEN "wait" ELSE "unused"]
    /\ ret = [t \in Threads |-> "done"]
    /\ joinTarget = [t \in Threads |-> None]
    /\ flagged = [t \in Threads |-> None]
    /\ tppIsSet = FALSE
    /\ htrack = [t \in Threads |-> None]
    /\ playback_history = <<tracks[1]>>
    /\ stop_flag = [s \in Sessions |-> FALSE]
    /\ paused = [s \in Sessions \cup {DeadRef} |-> s = 1]
    /\ dev = [s \in Sessions |-> IF s = 1 THEN "open" ELSE "none"]
    /\ volume = [s \in Sessions |-> IF s = 1 THEN InitialVolume ELSE 0]
    /\ muted = [s \in Sessions |-> FALSE]
    /\ chunk = [s \in Sessions |-> NoChunk]
    /\ current_frame = [s \in Sessions |-> 0]
    /\ offset = [s \in Sessions |-> 0]
    /\ exit = [s \in Sessions |-> "none"]
    /\ finished = [s \in Sessions |-> 0]
    /\ sessTrack = [s \in Sessions |-> IF s = 1 THEN tracks[1] ELSE None]
    /\ origin = [s \in Sessions |-> IF s = 1 THEN "cmd" ELSE "none"]
    /\ advIdx = [s \in Sessions |-> -1]
    /\ pctIdx = [s \in Sessions |-> -1]
    /\ nsessions = 1
    /\ cmd = NoCmd
    /\ cmds = MaxCmds - 1

SpecPause == InitPaused /\ [][Next]_vars

\* ----------------------------------------------------- gain and mute
\* A state the program reaches by changeVolume, a double click on the first
\* row and toggleMute: the first track is streaming, muted, with the gain
\* of the volume slider; cmds counts the commands issued from here on.
InitMuted ==
    /\ tracks \in {FreshTracks(k, {None}) : k \in 1..MaxTracks}
    /\ currentTrackIndex = 0
    /\ currentTrack = tracks[1]
    /\ playback_position = 0
    /\ audio_thread = 1
    /\ shuffle = FALSE
    /\ DiskInit
    /\ repeat = FALSE
    /\ volume_level \in MutedVolumes
    /\ pc = [t \in Threads |-> IF t = Main THEN "idle"
                               ELSE IF t = 1 THEN "loop" ELSE "unused"]
    /\ ret = [t \in Threads |-> "done"]
    /\ joinTarget = [t \in Threads |-> None]
    /\ flagged = [t \in Threads |-> None]
    /\ tppIsSet = FALSE
    /\ htrack = [t \in Threads |-> None]
    /\ playback_history = <<tracks[1]>>
    /\ stop_flag = [s \in Sessions |-> FALSE]
    /\ paused = [s \in Sessions \cup {DeadRef} |-> FALSE]
    /\ dev = [s \in Sessions |-> IF s = 1 THEN "open" ELSE "none"]
    /\ volume = [s \in Sessions |-> IF s = 1 THEN volume_level ELSE 0]
    /\ muted = [s \in Sessions |-> s = 1]
    /\ chunk = [s \in Sessions |-> NoChunk]
    /\ current_frame = [s \in Sessions |-> 0]
    /\ offset = [s \in Sessions |-> 0]
    /\ exit = [s \in Sessions |-> "none"]
    /\ finished = [s \in Sessions |-> 0]
    /\ sessTrack = [s \in Sessions |-> IF s = 1 THEN tracks[1] ELSE None]
    /\ origin = [s \in Sessions |-> IF s = 1 THEN "cmd" ELSE "none"]
    /\ advIdx = [s \in Sessions |-> -1]
    /\ pctIdx = [s \in Sessions |-> -1]
    /\ nsessions = 1
    /\ cmd = NoCmd
    /\ cmds = 0

\* the steps of the program while the user only moves the volume slider,
\* presses the mute button and closes the window
NextGain ==
    \/ \E value \in VolumeValues : changeVolume(value)
    \/ toggleMute
    \/ closeEvent
    \/ CvMuted
    \/ CvSet
    \/ TmFlip
    \/ TmIcon
    \/ \E t \in Threads : Controller(t)
    \/ \E s \in Sessions : Stream(s)

SpecMuted == InitMuted /\ [][NextGain]_vars

\* ------------------------------------------------------ two sessions
\* A state the program reaches when the slider is released at its end while
\* the first play of the only track is starting: the session of the seek
\* (1) and the session started by the completion callback of the first play
\* (2, the one self.audio_thread refers to) both stream the track from its
\* start.  The AudioThread of the first play has ended and is not counted;
\* one user command follows.
InitOrphan ==
    /\ tracks = FreshTracks(1, {None})
    /\ currentTrackIndex = 0
    /\ currentTrack = tracks[1]
    /\ playback_position = 0
    /\ audio_thread = 2
    /\ shuffle = FALSE
    /\ DiskInit
    /\ repeat = FALSE
    /\ volume_level = InitialVolume
    /\ pc = [t \in Threads |-> IF t = Main THEN "idle"
                               ELSE IF t \in {1, 2} THEN "loop" ELSE "unused"]
    /\ ret = [t \in Threads |-> "done"]
    /\ joinTarget = [t \in Threads |-> None]
    /\ flagged = [t \in Threads |-> None]
    /\ tppIsSet = FALSE
    /\ htrack = [t \in Threads |-> None]
    /\ playback_history = <<tracks[1]>>
    /\ stop_flag = [s \in Sessions |-> FALSE]
    /\ paused = [s \in Sessions \cup {DeadRef} |-> FALSE]
    /\ dev = [s \in Sessions |-> IF s \in {1, 2} THEN "open" ELSE "none"]
    /\ volume = [s \in Sessions |-> IF s \in {1, 2} THEN InitialVolume ELSE 0]
    /\ muted = [s \in Sessions |-> FALSE]
    /\ chunk = [s \in Sessions |-> NoChunk]
    /\ current_frame = [s \in Sessions |-> 0]
    /\ offset = [s \in Sessions |-> 0]
    /\ exit = [s \in Sessions |-> "none"]
    /\ finished = [s \in Sessions |-> 0]
    /\ sessTrack = [s \in Sessions |-> IF s \in {1, 2} THEN tracks[1] ELSE None]
    /\ origin = [s \in Sessions |-> IF s = 1 THEN "cmd"
                                    ELSE IF s = 2 THEN "next_eof" ELSE "none"]
    /\ advIdx = [s \in Sessions |-> -1]
    /\ pctIdx = [s \in Sessions |-> -1]
    /\ nsessions = 2
    /\ cmd = NoCmd
    /\ cmds = MaxCmds - 1

SpecOrphan == InitOrphan /\ [][NextGain]_vars

\* ------------------------------------------------------------- history
\* the steps of the program with the test and the append of addToHistory
\* taken apart, while the user only uses the play and next buttons
NextHistory ==
    \/ togglePlayPause
    \/ NextTrack
    \/ TppTest
    \/ TppFlip
    \/ \E t \in Threads :
          \/ SpCheck(t)
          \/ SpFlag(t)
          \/ SpSet(t)
          \/ SpJoin(t)
          \/ SpWait(t)
          \/ PctCheck(t)
          \/ PctNew(t)
          \/ PctHistory(t)
          \/ PctAppend(t)
    \/ \E s \in Sessions : Stream(s)

SpecHistory == Init /\ [][NextHistory]_vars

\* ------------------------------------------------------- use of self.lock
\* the cross-thread fields the step leaving label l reads or writes: line 87
\* (frame), 92 (loop), 100 and 102-103 (wait), 112-113 (pos), 582 (sp_flag),
\* 624 (cv_muted), 625-626 (cv_set), 631 (tm_flip), 632 (tm_icon), and 607,
\* 614-616 of rewind15 and forward15 (seek)
Touched(l) ==
    CASE l = "frame"    -> {"playback_position"}
      [] l = "loop"     -> {"stop_flag"}
      [] l = "wait"     -> {"muted", "volume"}
      [] l = "pos"      -> {"playback_position"}
      [] l = "sp_flag"  -> {"stop_flag"}
      [] l = "cv_muted" -> {"muted"}
      [] l = "cv_set"   -> {"volume"}
      [] l = "tm_flip"  -> {"muted"}
      [] l = "tm_icon"  -> {"muted"}
      [] l = "seek"     -> {"playback_position"}
      [] OTHER          -> {}

\* the fields that step accesses inside a "with self.lock" block: lines
\* 102-103, 112-113 and 625-626 are the only such blocks
Locked(l) ==
    CASE l = "wait"   -> {"volume"}
      [] l = "pos"    -> {"playback_position"}
      [] l = "cv_set" -> {"volume"}
      [] OTHER        -> {}

\* the label of the code thread t executes in this step: its position, or
\* "seek" when the GUI thread enters rewind15, forward15 or onSeekEnd
StepLabel(t) ==
    IF t = Main /\ pc[t] = "idle"
    THEN (IF cmd'.name = "seek" THEN "seek" ELSE "idle")
    ELSE pc[t]

\* ------------------------------------------------- saving and loading
\* lines 707-721: one line per track; nothing is written for an empty
\* playlist
savePlaylist ==
    /\ Issue
    /\ IF tracks = <<>>
       THEN UNCHANGED <<playlist_file, saved>>
       ELSE /\ playlist_file' = WriteLines(PathsOf(tracks))
            /\ saved' = PathsOf(tracks)
    /\ UNCHANGED <<tracks, currentTrackIndex, currentTrack, playback_position,
                   audio_thread, shuffle, path, files, volume_level,
                   playback_history, repeat, sessVars, pc, ret, joinTarget,
                   flagged, tppIsSet, htrack, cmd>>

\* a file is deleted by something outside the player: os.path.isfile
\* (line 732) is false of p from now on
unlink(p) ==
    /\ p \in files
    /\ files' = files \ {p}
    /\ UNCHANGED <<tracks, currentTrackIndex, currentTrack, playback_position,
                   audio_thread, shuffle, path, playlist_file, saved,
                   volume_level, playback_history, repeat, sessVars, pc, ret,
                   joinTarget, flagged, tppIsSet, htrack, cmd, cmds,
                   nsessions>>

\* lines 723-741, line by line, for the playlist file savePlaylist wrote:
\* self.tracks is cleared and an AudioTrack is made of every stripped line
\* that names a file
loadPlaylistFile ==
    /\ Issue
    /\ playlist_file # NoText
    /\ LET ps == LoadedPaths(ReadLines(playlist_file))
           new == FreshTracks(Len(ps), KeptTracks)
       IN /\ Cardinality(TrackIds \ KeptTracks) >= Len(ps)
          /\ tracks' = new
          /\ path' = [id \in TrackIds |->
                        IF \E i \in 1..Len(ps) : new[i] = id
                        THEN ps[CHOOSE i \in 1..Len(ps) : new[i] = id]
                        ELSE path[id]]
    /\ UNCHANGED <<currentTrackIndex, currentTrack, playback_position,
                   audio_thread, shuffle, files, playlist_file, saved,
                   volume_level, playback_history, repeat, sessVars, pc, ret,
                   joinTarget, flagged, tppIsSet, htrack, cmd>>

\* The window after construction and after the user has added up to
\* MaxTracks files, whose names are any of PathSet; the files added exist,
\* and so may the other files of PathSet.
InitPlaylist ==
    /\ \E k \in 0..MaxTracks :
          \E ps \in [1..k -> PathSet] :
             /\ tracks = FreshTracks(k, {None})
             /\ path = [id \in TrackIds |->
                           IF id <= k THEN ps[id] ELSE DefaultPath(id)]
             /\ files \in {S \in SUBSET PathSet : \A i \in 1..k : ps[i] \in S}
    /\ playlist_file = NoText
    /\ saved = <<>>
    /\ currentTrackIndex = -1
    /\ currentTrack = None
    /\ playback_position = 0
    /\ audio_thread = None
    /\ shuffle = FALSE
    /\ repeat = FALSE
    /\ volume_level = InitialVolume
    /\ pc = [t \in Threads |-> IF t = Main THEN "idle" ELSE "unused"]
    /\ ret = [t \in Threads |-> "done"]
    /\ joinTarget = [t \in Threads |-> None]
    /\ flagged = [t \in Threads |-> None]
    /\ tppIsSet = FALSE
    /\ htrack = [t \in Threads |-> None]
    /\ playback_history = <<>>
    /\ stop_flag = [s \in Sessions |-> FALSE]
    /\ paused = [s \in Sessions \cup {DeadRef} |-> FALSE]
    /\ dev = [s \in Sessions |-> "none"]
    /\ volume = [s \in Sessions |-> 0]
    /\ muted = [s \in Sessions |-> FALSE]
    /\ chunk = [s \in Sessions |-> NoChunk]
    /\ current_frame = [s \in Sessions |-> 0]
    /\ offset = [s \in Sessions |-> 0]
    /\ exit = [s \in Sessions |-> "none"]
    /\ finished = [s \in Sessions |-> 0]
    /\ sessTrack = [s \in Sessions |-> None]
    /\ origin = [s \in Sessions |-> "none"]
    /\ advIdx = [s \in Sessions |-> -1]
    /\ pctIdx = [s \in Sessions |-> -1]
    /\ nsessions = 0
    /\ cmd = NoCmd
    /\ cmds = 0

NextPlaylist ==
    \/ savePlaylist
    \/ loadPlaylistFile
    \/ \E p \in PathSet : unlink(p)

SpecPlaylist == InitPlaylist /\ [][NextPlaylist]_vars

\* ----------------------------------------------------------------- claims
Abs(x) == IF x < 0 THEN 0 - x ELSE x

\* the duration of one chunk, in milliseconds
ChunkMs == PositionMs(chunk_size)

\* the streaming thread of s exists (it was started and has not ended)
Alive(s) == pc[s] \notin {"unused", "created"}

\* C1: in every reachable state at most one session has its output device
\* open; starting a session while one is running leaves one running.
C1_AtMostOneSession ==
    Cardinality({s \in Sessions : Running(s)}) <= 1

\* C2: when the stopPlayback of closeEvent has stopped and joined a session
\* and returns, the transport is stopped: no streaming thread exists, none
\* was started by the stop.
C2_StopLeavesStopped ==
    [][(pc[Main] = "sp_wait" /\ cmd.name = "close" /\ pc'[Main] = "closed")
          => \A s \in Sessions : ~Alive(s)']_vars

\* C3: a seek to p that found a session active and tore it down restarts
\* the same track at p: when the new session is about to be started,
\* currentTrackIndex is the index the seek found and the position counter
\* is within one chunk of p.
C3_SeekRestartsAtOffset ==
    (pc[Main] = "pct_start" /\ cmd.name = "seek" /\ cmd.joined)
        => /\ currentTrackIndex = cmd.idx0
           /\ Abs(playback_position - cmd.p) <= ChunkMs

\* C4: for a session that opened its device and entered the streaming
\* loop, playback_finished is invoked only after the loop was left and the
\* device released, at most once, and the thread does not end before it has
\* been invoked once, whichever way the loop was left.
C4_CallbackOnceAfterRelease ==
    [][\A s \in Sessions :
          /\ finished'[s] > finished[s]
                => /\ finished[s] = 0
                   /\ finished'[s] = 1
                   /\ exit[s] # "none"
                   /\ dev[s] = "released"
          /\ (dev[s] # "none" /\ pc'[s] = "unused")
                => /\ finished[s] = 1
                   /\ dev[s] = "released"]_vars

\* a session whose write failed has released the device and is in its one
\* invocation of the callback
C4_Witness ==
    \E s \in Sessions :
        /\ exit[s] = "werr"
        /\ dev[s] = "released"
        /\ finished[s] = 1
        /\ InCallback(s)

\* C5 (the part of it a finite run refutes): a stopPlayback entered while
\* the session was paused returns; it does not end in an exception.
C5_StopOfPausedReturns ==
    ~(pc[Main] = "raised" /\ cmd.name = "close" /\ cmd.paused0)

\* C6: the session started by a natural completion with repeat set begins
\* at frame 0.
C6_RepeatRestartsAtZero ==
    \A s \in Sessions :
        (origin[s] = "repeat_eof" /\ Streaming(s)) => current_frame[s] = 0

\* C7: a session that ended by end of data with repeat and shuffle off and
\* whose callback advanced the index to (old index + 1) mod N is, when it is
\* about to start the new session, at that index with position 0, and the
\* session it created is the one the controller holds, for the track at
\* that index.
C7_CompletionAdvances ==
    \A s \in Sessions :
        (pc[s] = "pct_start" /\ exit[s] = "eof" /\ advIdx[s] >= 0)
            => /\ currentTrackIndex = advIdx[s]
               /\ pctIdx[s] = advIdx[s]
               /\ playback_position = 0
               /\ audio_thread \in Sessions
               /\ pc[audio_thread] = "created"

\* C8: when nextTrack (shuffle off), issued while a session is running, has
\* stopped that session and is about to return, currentTrackIndex is
\* (index before + 1) mod N and the current track is the one at that index.
C8_NextWraps ==
    (pc[Main] = "pct_start" /\ cmd.name = "next" /\ cmd.joined)
        => /\ currentTrackIndex = (cmd.idx0 + 1) % cmd.n0
           /\ currentTrack = tracks[((cmd.idx0 + 1) % cmd.n0) + 1]

\* C9: when prevTrack, issued while a session is running, has stopped that
\* session and is about to return, currentTrackIndex is
\* (index before - 1) mod N, the position is 0 and the current track is the
\* one at that index.
C9_PrevWraps ==
    (pc[Main] = "pct_start" /\ cmd.name = "prev" /\ cmd.joined)
        => /\ currentTrackIndex = (cmd.idx0 - 1) % cmd.n0
           /\ playback_position = 0
           /\ currentTrack = tracks[((cmd.idx0 - 1) % cmd.n0) + 1]

\* C10: -1 <= currentTrackIndex < len(tracks) in every reachable state.
C10_IndexInvariant ==
    -1 <= currentTrackIndex /\ currentTrackIndex < Len(tracks)

\* C11: when removeTrackAt has removed the row that was the current index
\* while a session was running, and its stopPlayback has stopped and joined
\* that session, no streaming thread exists when the handler returns.
C11_RemoveCurrentStops ==
    [][(pc[Main] = "sp_wait" /\ cmd.name = "remove" /\ cmd.p = cmd.idx0
          /\ pc'[Main] = "idle")
          => \A s \in Sessions : ~Alive(s)']_vars

\* C12: when removeTrackAt, issued for a row other than the current index,
\* goes on after its message box, it returns without calling stopPlayback,
\* and the index is the one at the removal minus one for a row before it,
\* unchanged for a row after it.
C12_RemoveOtherKeepsTrack ==
    [][(pc[Main] = "rm_adjust" /\ pc'[Main] # "rm_adjust"
          /\ cmd.idx0 >= 0 /\ cmd.p # cmd.idx0)
          => /\ pc'[Main] = "idle"
             /\ currentTrackIndex' = IF cmd.p < cmd.idx0 THEN cmd.idx0 - 1
                                     ELSE cmd.idx0]_vars

\* C15: from one state to the next in which the same session has its
\* device open, playback_position does not decrease.
C15_PositionMonotonic ==
    [][\A s \in Sessions :
          (Running(s) /\ Running(s)')
              => playback_position' >= playback_position]_vars

\* C17: a session whose open phase fails reports the error and ends: it
\* never opens the device, writes no chunk, never calls playback_finished,
\* and neither step changes tracks or currentTrackIndex.
C17_OpenFailureIsTerminal ==
    [][\A s \in Sessions :
          /\ (pc[s] = "run" /\ pc'[s] \notin {"run", "frame"})
                => /\ pc'[s] = "open_err"
                   /\ dev'[s] = "none" /\ offset'[s] = 0 /\ finished'[s] = 0
                   /\ tracks' = tracks
                   /\ currentTrackIndex' = currentTrackIndex
          /\ (pc[s] = "open_err" /\ pc'[s] # "open_err")
                => /\ pc'[s] = "unused"
                   /\ dev[s] = "none" /\ offset[s] = 0 /\ finished[s] = 0
                   /\ tracks' = tracks
                   /\ currentTrackIndex' = currentTrackIndex]_vars

\* a session is reporting its open failure while the playlist entry it was
\* started for is still the current one
C17_Witness ==
    \E s \in Sessions :
        /\ pc[s] = "open_err"
        /\ currentTrackIndex >= 0
        /\ currentTrackIndex < Len(tracks)
        /\ tracks[currentTrackIndex + 1] = currentTrack
\* C14: every change of gain or mute made while a session is running is used
\* for every chunk that begins after it: when the streaming loop of the
\* session self.audio_thread refers to prepares an audible chunk and no
\* handler of the control surface is under way, the gain applied to the
\* chunk is the value last given to changeVolume and the mute value is the
\* one toggleMute left.
C14_GainMuteApplied ==
    [][\A s \in Sessions :
          (/\ pc[s] = "wait" /\ pc'[s] = "write"
           /\ Running(s) /\ audio_thread = s /\ pc[Main] = "idle"
           /\ ~muted[s])
          => /\ chunk'[s].m = muted[s]
             /\ chunk'[s].v = volume_level]_vars

\* C18: a chunk prepared while the muted flag of its session is set is
\* written as zeros of the length of the input chunk, whatever the gain and
\* the samples read, and the position update that follows advances
\* playback_position by that length.
C18_MutedIsSilence ==
    [][\A s \in Sessions :
          /\ (pc[s] = "wait" /\ pc'[s] = "write" /\ muted[s])
             => /\ chunk'[s].out = 0
                /\ chunk'[s].len = ChunkLen(current_frame[s], offset[s])
                /\ chunk'[s].len > 0
          /\ (pc[s] = "pos" /\ pc'[s] # "pos" /\ chunk[s].m)
             => playback_position' =
                   PositionMs(current_frame[s] + offset[s]
                              + ChunkLen(current_frame[s], offset[s]))]_vars

\* a muted chunk of nonzero samples and nonzero gain has been written
C18_Witness ==
    \E s \in Sessions :
        /\ pc[s] = "pos"
        /\ chunk[s].m /\ chunk[s].x # 0 /\ chunk[s].v # 0
        /\ chunk[s].out = 0

C13_HistoryInvariant ==
    [][/\ Len(playback_history') <= HistoryMax
       /\ \A i, j \in 1..Len(playback_history') :
             i # j => playback_history'[i] # playback_history'[j]
       /\ playback_history' # playback_history
          => \E trk \in TrackIds :
                /\ ~InHistory(trk)
                /\ playback_history' = AppendLeft(playback_history, trk)]_vars

\* C20: togglePlayPause issued with currentTrackIndex >= 0 and audio_thread
\* set does not restart anything: none of its steps changes audio_thread,
\* currentTrackIndex, playback_position or the history, none creates, stops
\* or ends a session, and the only thing it writes is the pause flag of the
\* session audio_thread refers to, which it flips when that is still the
\* session the command found.
C20_ToggleOnlyFlipsPause ==
    [][((pc[Main] = "idle" /\ pc'[Main] = "tpp_test")
        \/ (pc[Main] \in {"tpp_test", "tpp_flip"} /\ pc'[Main] # pc[Main]))
       => /\ audio_thread' = audio_thread
          /\ currentTrackIndex' = currentTrackIndex
          /\ playback_position' = playback_position
          /\ playback_history' = playback_history
          /\ nsessions' = nsessions
          /\ stop_flag' = stop_flag
          /\ dev' = dev
          /\ \A s \in Sessions : pc'[s] = pc[s]
          /\ \A s \in Sessions \cup {DeadRef} :
                s # audio_thread => paused'[s] = paused[s]
          /\ (pc[Main] = "tpp_flip" /\ pc'[Main] = "idle"
              /\ audio_thread = cmd.sess0)
             => paused'[audio_thread] = ~cmd.paused0]_vars

\* togglePlayPause has paused the one session there is, which still has the
\* device open
C20_Witness ==
    /\ pc[Main] = "idle"
    /\ nsessions = 1
    /\ audio_thread = 1
    /\ Running(1)
    /\ paused[1]

\* C16: stopPlayback does not return before the streaming thread of the
\* session whose stop flag it set has terminated: when the join of line 584
\* returns and stopPlayback goes on to its end, that session no longer has
\* its output device open.
C16_StopJoinsFlagged ==
    [][\A t \in Threads :
          (pc[t] = "sp_wait" /\ pc'[t] # "sp_wait" /\ flagged[t] \in Sessions)
          => ~Running(flagged[t])]_vars

\* C26: a session whose start frame is at or beyond the number of decoded
\* frames completes at once: from the computation of the start frame to the
\* call of the completion callback it writes no chunk and leaves
\* playback_position alone, it releases the device, and it calls
\* playback_finished once.
C26_SeekPastEndCompletes ==
    [][\A s \in Sessions :
          /\ (pc[s] = "frame" /\ pc'[s] # "frame"
              /\ StartFrame(playback_position) >= TrackFrames)
             => /\ pc'[s] = "loop"
                /\ playback_position' = playback_position
          /\ (pc[s] = "loop" /\ pc'[s] # "loop"
              /\ current_frame[s] >= TrackFrames)
             => /\ pc'[s] = "finally"
                /\ exit'[s] = "eof"
                /\ offset'[s] = 0
                /\ playback_position' = playback_position
          /\ (pc[s] = "finally" /\ pc'[s] # "finally"
              /\ current_frame[s] >= TrackFrames)
             => /\ pc'[s] = "cb"
                /\ dev'[s] = "released"
                /\ finished'[s] = 0
                /\ playback_position' = playback_position
          /\ (pc[s] = "cb" /\ pc'[s] # "cb"
              /\ current_frame[s] >= TrackFrames)
             => /\ finished'[s] = 1
                /\ dev'[s] = "released"
                /\ playback_position' = playback_position]_vars

\* a session that started at the end of its data has called the completion
\* callback
C26_Witness ==
    \E s \in Sessions :
        /\ current_frame[s] >= TrackFrames
        /\ exit[s] = "eof"
        /\ finished[s] = 1
        /\ dev[s] = "released"

\* C28: whenever no handler of the control surface is under way, a non-null
\* self.audio_thread refers to a session whose thread has not terminated:
\* a session that has ended, by any path, is no longer referred to.
C28_RefIsLive ==
    (pc[Main] = "idle" /\ audio_thread # None)
        => /\ audio_thread \in Sessions
           /\ pc[audio_thread] # "unused"

\* C29: each session created by playCurrentTrack starts with stop_flag
\* false, not paused, not muted and its gain equal to the controller's
\* volume_level / 100 at that moment, whatever the stop, pause, mute and gain
\* values of the sessions created before it.
C29_FreshSessionState ==
    [][\A n \in Sessions :
          (pc[n] = "unused" /\ pc'[n] = "created")
              => /\ audio_thread' = n
                 /\ stop_flag'[n] = FALSE
                 /\ paused'[n] = FALSE
                 /\ muted'[n] = FALSE
                 /\ volume'[n] = volume_level]_vars

\* a later session has been created while the volume slider is away from
\* its initial value
C29_Witness ==
    \E n \in Sessions :
        /\ n > 1
        /\ pc[n] = "created"
        /\ volume_level # InitialVolume
        /\ volume[n] = volume_level
        /\ ~paused[n] /\ ~muted[n] /\ ~stop_flag[n]

\* C27: once a handler has seen self.audio_thread non-null, its later uses
\* of the reference find the same session: no line of stopPlayback,
\* togglePlayPause, changeVolume or toggleMute after the test finds None, the
\* session stopPlayback wakes and joins is the one it flagged, and the
\* reference it clears is the reference to that session.
C27_ReferenceIsStable ==
    [][/\ \A t \in Threads :
            /\ (pc[t] \in {"sp_flag", "sp_set", "sp_join"} /\ pc'[t] # pc[t])
                  => audio_thread # None
            /\ (pc[t] \in {"sp_set", "sp_join", "sp_wait"} /\ pc'[t] # pc[t])
                  => audio_thread = flagged[t]
       /\ (/\ pc[Main] \in {"tpp_test", "tpp_flip", "cv_muted", "cv_set",
                              "tm_flip", "tm_icon"}
           /\ pc'[Main] # pc[Main])
             => audio_thread # None]_vars

\* the chunks session s can still write once its stop flag is set: the one
\* it is waiting to write or writing, none when it is at the top of the loop
\* or past the write
WriteBudget(s) == IF pc[s] \in {"wait", "write"} THEN 1 ELSE 0

\* session s completes a stream.write in this step
Wrote(s) == pc[s] = "write" /\ pc'[s] = "pos"

\* C23: once the stop flag of a session is set it stays set and the session
\* writes at most one further chunk before it leaves the loop: every step
\* taken with the flag set keeps the number of chunks still to be written
\* within the budget of one, a completed write uses the budget up, and the
\* top of the loop leads to the finally block only.  A session blocked in the
\* pause wait is at "wait" and has the same budget.
C23_StopWithinOneChunk ==
    [][\A s \in Sessions :
          (stop_flag[s] /\ Alive(s))
              => /\ pc'[s] # "unused" => stop_flag'[s]
                 /\ WriteBudget(s)' + (IF Wrote(s) THEN 1 ELSE 0)
                        <= WriteBudget(s)
                 /\ (pc[s] = "loop" /\ pc'[s] # "loop")
                        => pc'[s] = "finally" /\ exit'[s] \in {"stop", "eof"}]_vars

\* stopPlayback has flagged and woken a session and waits in join while the
\* session, which was paused, has written the one chunk it was waiting to
\* write
C23_Witness ==
    \E s \in Sessions :
        /\ stop_flag[s]
        /\ pc[s] = "pos"
        /\ flagged[Main] = s
        /\ pc[Main] = "sp_wait"

\* the chunk of session s that is past the pause wait: being written, or
\* written with its position still to be recorded
InFlight(s) == IF pc[s] \in {"write", "pos"} THEN 1 ELSE 0

\* C24, as stated: while a session is paused its streaming thread writes no
\* chunk and does not advance the position counter.
C24_PausedWritesNothing ==
    [][\A s \in Sessions :
          (paused[s] /\ Alive(s))
              => /\ ~Wrote(s)
                 /\ (pc[s] = "pos" /\ pc'[s] # "pos")
                       => playback_position' = playback_position]_vars

\* C24, amended: a paused session blocks at the pause wait and begins no
\* chunk: a thread that is at the wait while paused stays there, and while
\* the session stays paused no chunk gets past the wait; only the chunk that
\* was already past the wait when the pause arrived is written and recorded.
C24_PausedBlocksAtWait ==
    [][\A s \in Sessions :
          (paused[s] /\ Alive(s))
              => /\ pc[s] = "wait" => pc'[s] = "wait"
                 /\ InFlight(s)' <= InFlight(s)]_vars

\* a session that has written chunks is paused and blocked at the wait, no
\* handler of the control surface under way
C24_Witness ==
    \E s \in Sessions :
        /\ paused[s]
        /\ pc[s] = "wait"
        /\ offset[s] > 0
        /\ ~stop_flag[s]
        /\ pc[Main] = "idle"

\* C25: the chunk handed to update_visualization after a successful write is
\* the chunk after mute substitution and before gain scaling: silence for a
\* muted chunk, the decoded samples for an unmuted one, whatever the volume.
C25_VisualizationPreGain ==
    \A s \in Sessions :
        pc[s] = "pos"
            => Visualized(chunk[s]) = (IF chunk[s].m THEN 0 ELSE chunk[s].x)

\* C22: every read and every write of volume, muted, stop_flag and
\* playback_position, by the streaming thread or by a handler of the control
\* surface, is made while holding the session's lock.
C22_SingleLockDiscipline ==
    [][\A t \in Threads :
          pc'[t] # pc[t]
              => Touched(StepLabel(t)) \subseteq Locked(StepLabel(t))]_vars

\* C21: loading the playlist file that savePlaylist wrote gives a track
\* list whose paths are the saved paths that name a file at the time of the
\* load, in the saved order.
C21_PlaylistRoundTrip ==
    [][loadPlaylistFile
          => PathsOf(tracks)' = SelectSeq(saved, isfile)]_vars

====
